---- MODULE Spec2Model ----
(***************************************************************************)
(* A model of movie_ticketing_mcp_server: the RESTful adapter              *)
(* (http_client.py, RestfulAPIClient), the response normalizer             *)
(* (get_response) and the hand-written tool get_tickets (server.py).       *)
(*                                                                         *)
(* Text is modelled as a sequence of chunks (TLA+ strings); concatenation  *)
(* of text is concatenation of sequences, and "/" is always a chunk of its *)
(* own so that rstrip("/") and lstrip("/") act on it.                      *)
(***************************************************************************)
EXTENDS Integers, Sequences, FiniteSets, TLC

VARIABLES client, calls, sessions, nextSession, overridden, normalized

vars == <<client, calls, sessions, nextSession, overridden, normalized>>

(***************************************************************************)
(* Bounds of the model.                                                    *)
(***************************************************************************)
\* Number of call slots that may be in flight at once in SpecConc.
MaxCalls == 2
\* Number of transport sessions a behaviour may open (caps the counter).
MaxSessions == 3
\* Number of redirect responses the transport follows within one call.
MaxRedirects == 1

(***************************************************************************)
(* Text helpers.                                                           *)
(***************************************************************************)
\* Python None, as passed for an optional string argument.
None == "<None>"

\* A header that is not in a header mapping.
Missing == "<missing>"

RECURSIVE rstrip(_, _)
rstrip(s, ch) ==
    IF Len(s) > 0 /\ s[Len(s)] = ch THEN rstrip(SubSeq(s, 1, Len(s) - 1), ch) ELSE s

RECURSIVE lstrip(_, _)
lstrip(s, ch) ==
    IF Len(s) > 0 /\ s[1] = ch THEN lstrip(Tail(s), ch) ELSE s

(***************************************************************************)
(* Header mappings: a function from header name to value, Missing when the *)
(* mapping has no such key.                                                *)
(***************************************************************************)
HeaderNames == {"Authorization", "X-API-Key", "Content-Type", "X-Trace"}

EmptyHeaders == [h \in HeaderNames |-> Missing]

\* dict[h] = v
SetHeader(hs, h, v) == [hs EXCEPT ![h] = v]

ReplaceHeaders(defaults, percall) ==
    IF percall = [h \in HeaderNames |-> Missing] THEN defaults ELSE percall

\* The transport's merge of the session's headers with the headers of one
\* request: the request's entries replace the session's, the others stay.
MergeHeaders(defaults, percall) ==
    [h \in HeaderNames |-> IF percall[h] # Missing THEN percall[h] ELSE defaults[h]]

(***************************************************************************)
(* RestfulAPIClient.__init__ and create_client.                            *)
(***************************************************************************)
\* timeout: float = 30.0
DefaultTimeout == 30

\* headers or {}: a headers argument of None is the mapping with no entries.
NoHeaders == EmptyHeaders

WithApiKey(hs, api_key) ==
    IF api_key # None THEN SetHeader(hs, "X-API-Key", api_key) ELSE hs

WithBearer(hs, bearer_token) ==
    IF bearer_token # None
    THEN SetHeader(hs, "Authorization", "Bearer " \o bearer_token)
    ELSE hs

WithContentType(hs) ==
    IF hs["Content-Type"] = Missing
    THEN SetHeader(hs, "Content-Type", "application/json")
    ELSE hs

RestfulAPIClient(base_url, timeout, headers, api_key, bearer_token) ==
    [ base_url        |-> rstrip(base_url, "/"),
      timeout         |-> timeout,
      default_headers |->
          WithContentType(WithBearer(WithApiKey(headers, api_key),
                                     bearer_token)) ]

create_client(base_url, api_key, bearer_token) ==
    RestfulAPIClient(base_url, DefaultTimeout, NoHeaders, api_key, bearer_token)

\* ApiServerSettings.server_url
server_url == <<"http://localhost:9000", "/">>

\* http_client = create_client(api_server_settings.server_url)
http_client == create_client(server_url, None, None)

(***************************************************************************)
(* RestfulAPIClient._build_url.                                            *)
(***************************************************************************)
BuildUrlKeepSlash(base_url, endpoint) == base_url \o <<"/">> \o endpoint

_build_url(base_url, endpoint) == base_url \o <<"/">> \o lstrip(endpoint, "/")

(***************************************************************************)
(* JSON bodies and the values response.json() gives for them.  A value is  *)
(* [kind, py]: its Python type and its rendering by str().                 *)
(***************************************************************************)
EmptyBody == <<>>
ListBody == <<"[{\"id\": \"t1\", \"owner\": \"alice\"}]">>
ObjectBody == <<"{\"id\": \"t1\"}">>
NullBody == <<"null">>
NumberBody == <<"5">>
TextBody == <<"internal error">>
ForbiddenBody == <<"forbidden">>

Bodies == {EmptyBody, ListBody, ObjectBody, NullBody, NumberBody, TextBody}

PyNone == [kind |-> "none", py |-> <<"None">>]
EmptyDict == [kind |-> "object", py |-> <<"{}">>]
TicketList == [kind |-> "list", py |-> <<"[{'id': 't1', 'owner': 'alice'}]">>]
TicketObject == [kind |-> "object", py |-> <<"{'id': 't1'}">>]
NumberFive == [kind |-> "number", py |-> <<"5">>]

\* Whether json.loads accepts the text.
IsJson(content) == content \in {ListBody, ObjectBody, NullBody, NumberBody}

\* json.loads(text), for a text it accepts.
JsonLoads(content) ==
    CASE content = ListBody -> TicketList
      [] content = ObjectBody -> TicketObject
      [] content = NullBody -> PyNone
      [] content = NumberBody -> NumberFive

(***************************************************************************)
(* Replies of the backend and failures.                                    *)
(* A reply is [status, content, location, error]: error names a transport  *)
(* exception (then there is no response), location is the Location header  *)
(* of a redirect response (empty when the response has none).              *)
(***************************************************************************)
ErrorStatuses == {400, 401, 404, 500, 503}
SuccessStatuses == {200, 204}
RedirectStatuses == {302}
Statuses == SuccessStatuses \cup RedirectStatuses \cup ErrorStatuses

TransportErrors == {"ConnectError", "ReadTimeout"}

Response(status, content, location) ==
    [status |-> status, content |-> content, location |-> location, error |-> ""]

TransportFailure(error) ==
    [status |-> 0, content |-> <<>>, location |-> <<>>, error |-> error]

NoReply == [status |-> 0, content |-> <<>>, location |-> <<>>, error |-> "<none>"]

\* An exception is [type, status, text, message]: status and text are those
\* of the response the exception carries (0 and empty when it carries none),
\* message is str(exception).
NoExc == [type |-> "", status |-> 0, text |-> <<>>, message |-> <<>>]

Exc(type, message) == [type |-> type, status |-> 0, text |-> <<>>, message |-> message]

TransportMessage(error) ==
    IF error = "ConnectError" THEN <<"All connection attempts failed">> ELSE <<>>

JSONDecodeError == Exc("JSONDecodeError", <<"Expecting value: line 1 column 1 (char 0)">>)

CancelledError == Exc("CancelledError", <<>>)

IsBelow500(status) == status < 500

\* response.is_success
is_success(status) == status \div 100 = 2

ReasonPhrase(status) ==
    CASE status = 302 -> "Found"
      [] status = 400 -> "Bad Request"
      [] status = 401 -> "Unauthorized"
      [] status = 404 -> "Not Found"
      [] status = 500 -> "Internal Server Error"
      [] status = 503 -> "Service Unavailable"
      [] OTHER -> ""

ErrorType(status) ==
    CASE status \div 100 = 1 -> "Informational response"
      [] status \div 100 = 3 -> "Redirect response"
      [] status \div 100 = 4 -> "Client error"
      [] status \div 100 = 5 -> "Server error"
      [] OTHER -> "Invalid status code"

\* The message raise_for_status gives the HTTPStatusError it raises.
StatusMessage(status, url) ==
    <<ErrorType(status), " '", ToString(status), " ", ReasonPhrase(status), "' for url '">>
    \o url
    \o <<"'\nFor more information check: https://developer.mozilla.org/en-US/docs/Web/HTTP/Status/",
         ToString(status)>>

\* The HTTPStatusError raise_for_status raises: it carries the response.
HTTPStatusError(reply, url) ==
    [type |-> "HTTPStatusError", status |-> reply.status, text |-> reply.content,
     message |-> StatusMessage(reply.status, url)]

(***************************************************************************)
(* What a call gives its caller: a returned value or a raised exception.   *)
(***************************************************************************)
Returned(value) == [outcome |-> "returned", value |-> value, exc |-> NoExc]
Raised(exc) == [outcome |-> "raised", value |-> PyNone, exc |-> exc]
NoResult == [outcome |-> "", value |-> PyNone, exc |-> NoExc]

\* response.json()
json(reply) == IF IsJson(reply.content) THEN Returned(JsonLoads(reply.content))
               ELSE Raised(JSONDecodeError)

(***************************************************************************)
(* The code of each adapter method after its await: raise_for_status, then *)
(* the method's own reading of the body.  The awaited request raises the   *)
(* transport's exception when there is no response.                        *)
(***************************************************************************)
AwaitRaised(reply) == Raised(Exc(reply.error, TransportMessage(reply.error)))

\* get, post, put, patch: response.raise_for_status(); return response.json()
JsonAfter(reply, url) ==
    IF reply.error # "" THEN AwaitRaised(reply)
    ELSE IF ~is_success(reply.status) THEN Raised(HTTPStatusError(reply, url))
    ELSE json(reply)

DeleteAlwaysJson(reply, url) == JsonAfter(reply, url)

\* delete: ...; if response.content: return response.json(); return None
DeleteAfter(reply, url) ==
    IF reply.error # "" THEN AwaitRaised(reply)
    ELSE IF ~is_success(reply.status) THEN Raised(HTTPStatusError(reply, url))
    ELSE IF reply.content # <<>> THEN json(reply)
    ELSE Returned(PyNone)

\* request: ...; if response.content: return response.json(); return {}
RequestAfter(reply, url) ==
    IF reply.error # "" THEN AwaitRaised(reply)
    ELSE IF ~is_success(reply.status) THEN Raised(HTTPStatusError(reply, url))
    ELSE IF reply.content # <<>> THEN json(reply)
    ELSE Returned(EmptyDict)

MethodAfter(method, reply, url) ==
    CASE method = "delete" -> DeleteAfter(reply, url)
      [] method = "request" -> RequestAfter(reply, url)
      [] OTHER -> JsonAfter(reply, url)

(***************************************************************************)
(* get_tickets (server.py): the code after `await http_client.get(...)`.   *)
(* A tool result is [content, structuredContent]: the text of its one text *)
(* item, and the structured content (PyNone when there is none).           *)
(***************************************************************************)
NoToolResult == [content |-> <<>>, structuredContent |-> PyNone]

\* {"tickets": result}
WrapTickets(result) ==
    [kind |-> "object", py |-> <<"{'tickets': ">> \o result.py \o <<"}">>]

StructuredUnwrapped(result) == result

\* if isinstance(result, list): {"tickets": result} else: result
StructuredContent(result) ==
    IF result.kind = "list" THEN WrapTickets(result) ELSE result

\* CallToolResult declares structuredContent: dict[str, Any] | None; its
\* constructor raises a ValidationError for any other value.
ValidationError ==
    Exc("ValidationError", <<"1 validation error for CallToolResult\nstructuredContent">>)

\* except Exception as e: ... text=f"Error: {e}"
ErrorResult(exc) ==
    [content |-> <<"Error: ">> \o exc.message, structuredContent |-> PyNone]

\* The try block on the value get returned.
SuccessResult(result) ==
    IF StructuredContent(result).kind \in {"object", "none"}
    THEN [content |-> result.py, structuredContent |-> StructuredContent(result)]
    ELSE ErrorResult(ValidationError)

GetTicketsUncaught(got) ==
    IF got.outcome = "raised" THEN NoToolResult ELSE SuccessResult(got.value)

GetTicketsAfter(got) ==
    IF got.outcome = "raised" THEN ErrorResult(got.exc) ELSE SuccessResult(got.value)

(***************************************************************************)
(* State.                                                                  *)
(*   client      the adapter: base_url, timeout, default_headers           *)
(*   calls       per call slot, the call in progress (see IdleCall)        *)
(*   sessions    the transport sessions that are open                      *)
(*   nextSession the identity the next session opened gets                 *)
(*   overridden  whether some call so far passed its own Authorization     *)
(*   normalized  the last response given to get_response and its result    *)
(***************************************************************************)
CallIds == 1..MaxCalls

\* The caller passed no timeout option: the session's timeout applies.
UseClientDefault == -1

IdleCall ==
    [ pc |-> "idle", via |-> "", method |-> "", endpoint |-> <<>>,
      headers |-> EmptyHeaders,
      kwTimeout |-> UseClientDefault, session |-> 0, requests |-> <<>>,
      history |-> <<>>, reply |-> NoReply, result |-> NoResult, toolResult |-> NoToolResult ]

InFlight(c) == calls[c].pc \in {"awaiting", "received"}

\* The adapters the program and its callers construct.
Clients ==
    { http_client,
      create_client(<<"http://host">>, None, "abc"),
      RestfulAPIClient(<<"http://host", "/">>, 10,
                       SetHeader(EmptyHeaders, "Content-Type", "text/plain"), "k1", "abc") }

Endpoints == {<<"/", "tickets">>, <<"tickets">>}

\* The headers argument of one call: None (no entries), an Authorization of
\* its own, or one more header.
CallHeaders ==
    { EmptyHeaders,
      SetHeader(EmptyHeaders, "Authorization", "Bearer xyz"),
      SetHeader(EmptyHeaders, "X-Trace", "t1") }

Owners == {None, "bob"}

Verbs == {"get", "options"}

TimeoutOptions == {UseClientDefault, 5}

\* The query string the transport appends for params={"owner": owner};
\* a None value is sent as the empty string.
OwnerQuery(owner) == <<"?owner=">> \o (IF owner = None THEN <<>> ELSE <<owner>>)

Queries == {<<>>} \cup {OwnerQuery(o) : o \in Owners}

Init ==
    /\ client \in Clients
    /\ calls = [c \in CallIds |-> IdleCall]
    /\ sessions = {}
    /\ nextSession = 1
    /\ overridden = FALSE
    /\ normalized = [reply |-> NoReply, result |-> NoResult]

(***************************************************************************)
(* _get_client: a new session with the adapter's timeout and default       *)
(* headers, following redirects.                                           *)
(***************************************************************************)
GetClientDefaultTimeout ==
    [ id |-> nextSession, timeout |-> DefaultTimeout,
      headers |-> client.default_headers, follow_redirects |-> TRUE ]

_get_client ==
    [ id |-> nextSession, timeout |-> client.timeout,
      headers |-> client.default_headers, follow_redirects |-> TRUE ]

\* The request a session builds: its headers merged with the call's, its
\* timeout unless the call gives one.
BuildRequest(session, verb, url, headers, timeout) ==
    [ verb |-> verb, url |-> url, session |-> session.id,
      headers |-> MergeHeaders(session.headers, headers),
      timeout |-> IF timeout = UseClientDefault THEN session.timeout ELSE timeout ]

\* The part of every adapter method up to its await: open a session, send.
Send(c, via, method, verb, endpoint, query, headers, timeout) ==
    /\ calls[c].pc = "idle"
    /\ nextSession <= MaxSessions
    /\ LET session == _get_client
           url == _build_url(client.base_url, endpoint) \o query
       IN /\ sessions' = sessions \cup {session.id}
          /\ nextSession' = nextSession + 1
          /\ calls' = [calls EXCEPT ![c] =
                [ IdleCall EXCEPT !.pc = "awaiting", !.via = via, !.method = method,
                                  !.endpoint = endpoint, !.headers = headers, !.kwTimeout = timeout,
                                  !.session = session.id,
                                  !.requests = <<BuildRequest(session, verb, url,
                                                              headers, timeout)>> ]]
    /\ overridden' = (overridden \/ headers["Authorization"] # Missing)
    /\ UNCHANGED <<client, normalized>>

get(c, endpoint, query, headers) ==
    Send(c, "adapter", "get", "GET", endpoint, query, headers, UseClientDefault)

post(c, endpoint, headers) ==
    Send(c, "adapter", "post", "POST", endpoint, <<>>, headers, UseClientDefault)

put(c, endpoint, headers) ==
    Send(c, "adapter", "put", "PUT", endpoint, <<>>, headers, UseClientDefault)

patch(c, endpoint, headers) ==
    Send(c, "adapter", "patch", "PATCH", endpoint, <<>>, headers, UseClientDefault)

delete(c, endpoint, headers) ==
    Send(c, "adapter", "delete", "DELETE", endpoint, <<>>, headers, UseClientDefault)

\* method.upper()
upper(verb) == IF verb = "get" THEN "GET" ELSE IF verb = "options" THEN "OPTIONS" ELSE verb

\* request(method, endpoint, **kwargs): kwargs go to the session's request,
\* here its headers and timeout options.
request(c, verb, endpoint, headers, timeout) ==
    Send(c, "adapter", "request", upper(verb), endpoint, <<>>, headers, timeout)

\* get_tickets up to its await of http_client.get("/tickets", params=...).
get_tickets(c, owner) ==
    /\ client = http_client
    /\ Send(c, "tool", "get", "GET", <<"/", "tickets">>, OwnerQuery(owner),
            EmptyHeaders, UseClientDefault)

(***************************************************************************)
(* The awaited request: the backend's reply, a redirect the session        *)
(* follows (follow_redirects=True), a transport exception, cancellation.   *)
(***************************************************************************)
Last(seq) == seq[Len(seq)]

Origin(url) == url[1]

\* The request the session sends on a redirect: a 302 turns the verb into
\* GET, and a target of another origin loses the Authorization header.
RedirectRequest(req, status, target) ==
    [ req EXCEPT !.verb = IF status = 302 /\ req.verb # "HEAD" THEN "GET" ELSE req.verb,
                 !.url = target,
                 !.headers = IF Origin(target) # Origin(req.url)
                             THEN SetHeader(req.headers, "Authorization", Missing)
                             ELSE req.headers ]

RedirectTargets == {<<"http://host", "/", "moved">>, <<"http://elsewhere", "/", "moved">>}

RetryServerError(call, reply) ==
    IF reply.status >= 500 /\ Len(call.requests) < 2
    THEN [call EXCEPT !.requests = Append(@, Last(@))]
    ELSE [call EXCEPT !.pc = "received", !.reply = reply]

\* The await ends with the reply: the session makes no further request.
Received(call, reply) == [call EXCEPT !.pc = "received", !.reply = reply]

Respond(c, status, content) ==
    /\ calls[c].pc = "awaiting"
    /\ calls' = [calls EXCEPT ![c] = Received(calls[c], Response(status, content, <<>>))]
    /\ UNCHANGED <<client, sessions, nextSession, overridden, normalized>>

TransportError(c, error) ==
    /\ calls[c].pc = "awaiting"
    /\ calls' = [calls EXCEPT ![c] = Received(calls[c], TransportFailure(error))]
    /\ UNCHANGED <<client, sessions, nextSession, overridden, normalized>>

FollowRedirect(c, status, target) ==
    /\ calls[c].pc = "awaiting"
    /\ _get_client.follow_redirects
    /\ Len(calls[c].history) < MaxRedirects
    /\ calls' = [calls EXCEPT
          ![c].history = Append(@, Response(status, <<>>, target)),
          ![c].requests = Append(@, RedirectRequest(Last(@), status, target))]
    /\ UNCHANGED <<client, sessions, nextSession, overridden, normalized>>

(***************************************************************************)
(* Leaving `async with self._get_client()`: the session is closed however  *)
(* the block ends.                                                         *)
(***************************************************************************)
CloseOnReturnOnly(open, session, result) ==
    IF result.outcome = "returned" THEN open \ {session} ELSE open

Close(open, session, result) == open \ {session}

\* The rest of the method after its await, and of get_tickets around it.
Resume(c) ==
    /\ calls[c].pc = "received"
    /\ LET call == calls[c]
           result == MethodAfter(call.method, call.reply, Last(call.requests).url)
       IN /\ calls' = [calls EXCEPT
                ![c].pc = "done",
                ![c].result = result,
                ![c].toolResult = IF call.via = "tool" THEN GetTicketsAfter(result)
                                  ELSE NoToolResult]
          /\ sessions' = Close(sessions, call.session, result)
    /\ UNCHANGED <<client, nextSession, overridden, normalized>>

\* The invocation is cancelled at its await: CancelledError leaves the
\* block (and get_tickets, whose `except Exception` does not catch it).
Cancel(c) ==
    /\ calls[c].pc = "awaiting"
    /\ calls' = [calls EXCEPT ![c].pc = "done", ![c].result = Raised(CancelledError)]
    /\ sessions' = Close(sessions, calls[c].session, Raised(CancelledError))
    /\ UNCHANGED <<client, nextSession, overridden, normalized>>

\* The caller has the result; the slot is free for the next call.
Return(c) ==
    /\ calls[c].pc = "done"
    /\ calls' = [calls EXCEPT ![c] = IdleCall]
    /\ UNCHANGED <<client, sessions, nextSession, overridden, normalized>>

(***************************************************************************)
(* get_response, the response normalizer.                                  *)
(***************************************************************************)
FailedObject(status, text) ==
    [ kind |-> "object",
      py |-> <<"{'result': 'failed', 'code': ", ToString(status), ", 'message': '">>
             \o text \o <<"'}">> ]

get_response_2xx(reply) ==
    IF is_success(reply.status) THEN json(reply)
    ELSE Returned(FailedObject(reply.status, reply.content))

get_response(reply) ==
    IF reply.status = 200 THEN json(reply)
    ELSE Returned(FailedObject(reply.status, reply.content))

NormalizerStatuses == Statuses \cup {201, 403}

NormalizerBodies == Bodies \cup {ForbiddenBody}

Normalize(status, content) ==
    /\ normalized' = [ reply |-> Response(status, content, <<>>),
                       result |-> get_response(Response(status, content, <<>>)) ]
    /\ UNCHANGED <<client, calls, sessions, nextSession, overridden>>

(***************************************************************************)
(* Specifications.                                                         *)
(*   Spec           one caller, every input of the adapter and the tool    *)
(*   SpecConc       the server: MaxCalls concurrent get_tickets invocations *)
(*   SpecNormalizer get_response on every response                         *)
(***************************************************************************)
Next ==
    \/ \E e \in Endpoints, q \in Queries, h \in CallHeaders : get(1, e, q, h)
    \/ \E e \in Endpoints, h \in CallHeaders : post(1, e, h)
    \/ \E e \in Endpoints, h \in CallHeaders : put(1, e, h)
    \/ \E e \in Endpoints, h \in CallHeaders : patch(1, e, h)
    \/ \E e \in Endpoints, h \in CallHeaders : delete(1, e, h)
    \/ \E v \in Verbs, e \in Endpoints, h \in CallHeaders, t \in TimeoutOptions :
          request(1, v, e, h, t)
    \/ \E o \in Owners : get_tickets(1, o)
    \/ \E s \in Statuses, b \in Bodies : Respond(1, s, b)
    \/ \E x \in TransportErrors : TransportError(1, x)
    \/ \E s \in RedirectStatuses, t \in RedirectTargets : FollowRedirect(1, s, t)
    \/ Resume(1)
    \/ Cancel(1)
    \/ Return(1)

Spec == Init /\ [][Next]_vars

\* The server: its adapter, and get_tickets invocations running concurrently.
InitConc == Init /\ client = http_client

ConcStatuses == {200, 500}

ConcBodies == {ObjectBody}

NextConc ==
    \E c \in CallIds :
        \/ get_tickets(c, None)
        \/ \E s \in ConcStatuses, b \in ConcBodies : Respond(c, s, b)
        \/ TransportError(c, "ConnectError")
        \/ FollowRedirect(c, 302, <<"http://localhost:9000", "/", "moved">>)
        \/ Resume(c)
        \/ Cancel(c)
        \/ Return(c)

SpecConc == InitConc /\ [][NextConc]_vars

NextNormalizer == \E s \in NormalizerStatuses, b \in NormalizerBodies : Normalize(s, b)

SpecNormalizer == Init /\ [][NextNormalizer]_vars

(***************************************************************************)
(* Properties.                                                             *)
(***************************************************************************)
Started(c) == calls[c].pc # "idle"

Done(c) == calls[c].pc = "done"

\* The awaited request of call c ended in a response with a non-2xx status.
StatusFailure(c) ==
    /\ calls[c].reply.error = ""
    /\ calls[c].reply.status # 0
    /\ ~(calls[c].reply.status \div 100 = 2)

\* The awaited request of call c ended in a transport exception.
TransportFailed(c) == calls[c].reply.error \in TransportErrors

FinalUrl(c) == calls[c].requests[Len(calls[c].requests)].url

\* C1 as stated: an adapter call answered with status S in {400, 401, 404,
\* 500, 503} and text T raises a failure whose carried status is S and whose
\* message is T.
C1_MessageIsResponseText ==
    \A c \in CallIds :
        (Done(c) /\ calls[c].via = "adapter" /\ calls[c].reply.status \in ErrorStatuses)
        => /\ calls[c].result.outcome = "raised"
           /\ calls[c].result.exc.status = calls[c].reply.status
           /\ calls[c].result.exc.message = calls[c].reply.content

\* C1 amended: such a call raises a failure that carries the response, so
\* its status is S and its response text is T; the failure's message is the
\* transport's description of the status and the URL, whatever T is.
C1_FailureCarriesStatusAndText ==
    \A c \in CallIds :
        (Done(c) /\ calls[c].via = "adapter" /\ calls[c].reply.status \in ErrorStatuses)
        => /\ calls[c].result.outcome = "raised"
           /\ calls[c].result.exc.type = "HTTPStatusError"
           /\ calls[c].result.exc.status = calls[c].reply.status
           /\ calls[c].result.exc.text = calls[c].reply.content
           /\ calls[c].result.exc.message =
                 <<IF calls[c].reply.status < 500 THEN "Client error" ELSE "Server error",
                   " '", ToString(calls[c].reply.status), " ",
                   ReasonPhrase(calls[c].reply.status), "' for url '">>
                 \o FinalUrl(c)
                 \o <<"'\nFor more information check: https://developer.mozilla.org/en-US/docs/Web/HTTP/Status/",
                      ToString(calls[c].reply.status)>>

C1_Witness ==
    /\ Done(1)
    /\ calls[1].method = "request"
    /\ calls[1].reply.status = 503
    /\ calls[1].reply.content = TextBody
    /\ calls[1].result.outcome = "raised"
    /\ calls[1].result.exc.text = TextBody

\* C2 as stated: a get_tickets invocation whose backend call fails returns a
\* text-only result "Error: " + failure message, which for a non-2xx
\* response is the response body ("Error: internal error"), and no
\* structured content.
C2_ErrorTextIsBody ==
    \A c \in CallIds :
        (Done(c) /\ calls[c].via = "tool" /\ (StatusFailure(c) \/ TransportFailed(c)))
        => /\ calls[c].toolResult.content =
                 <<"Error: ">> \o (IF StatusFailure(c) THEN calls[c].reply.content
                                   ELSE calls[c].result.exc.message)
           /\ calls[c].toolResult.structuredContent = PyNone

\* C2 amended: such an invocation returns a text-only result whose text is
\* "Error: " followed by the message of the failure the adapter raised (for
\* a non-2xx response the transport's description of the status, not the
\* response body), and no structured content.
C2_ErrorTextIsFailureMessage ==
    \A c \in CallIds :
        (Done(c) /\ calls[c].via = "tool" /\ (StatusFailure(c) \/ TransportFailed(c)))
        => /\ calls[c].result.outcome = "raised"
           /\ calls[c].toolResult.content = <<"Error: ">> \o calls[c].result.exc.message
           /\ Head(calls[c].toolResult.content) = "Error: "
           /\ calls[c].toolResult.structuredContent = PyNone

C2_Witness ==
    /\ Done(1)
    /\ calls[1].via = "tool"
    /\ calls[1].reply.status = 500
    /\ calls[1].reply.content = TextBody
    /\ calls[1].toolResult.content =
          <<"Error: ", "Server error", " '", "500", " ", "Internal Server Error",
            "' for url '", "http://localhost:9000", "/", "tickets", "?owner=", "bob",
            "'\nFor more information check: https://developer.mozilla.org/en-US/docs/Web/HTTP/Status/",
            "500">>

\* The adapter was constructed with bearer_token="abc".
BearerAbc == client.default_headers["Authorization"] = "Bearer abc"

C3_Requests ==
    \A c \in CallIds :
        (BearerAbc /\ Started(c))
        => LET sent == calls[c].requests[1].headers
               own == calls[c].headers
           IN /\ own["Authorization"] = Missing => sent["Authorization"] = "Bearer abc"
              /\ own["Authorization"] # Missing => sent["Authorization"] = own["Authorization"]
              /\ \A h \in HeaderNames \ {"Authorization"} :
                    own[h] = Missing => sent[h] = client.default_headers[h]
              /\ sent["Content-Type"] # Missing

\* C3: with bearer_token="abc", a call without its own Authorization header
\* sends "Authorization: Bearer abc"; a call with one sends its own value and
\* still sends the other default headers; no call changes the stored
\* defaults, so later calls carry "Bearer abc" again.
C3_HeaderMerging == []C3_Requests /\ [][client' = client]_vars

C3_Witness ==
    /\ BearerAbc
    /\ overridden
    /\ calls[1].pc = "awaiting"
    /\ calls[1].headers["Authorization"] = Missing
    /\ calls[1].requests[1].headers["Authorization"] = "Bearer abc"

\* C4: get_response returns the parsed JSON body for status 200 and, for
\* every other status C with text T, exactly the object
\* {"result": "failed", "code": C, "message": T}; it raises for no status
\* (only a 200 body that is not JSON makes the parse raise).
C4_Normalizer ==
    normalized.reply # NoReply =>
        LET r == normalized.reply
        IN /\ (r.status = 200 /\ IsJson(r.content))
                 => normalized.result = Returned(JsonLoads(r.content))
           /\ r.status # 200
                 => normalized.result =
                       Returned([ kind |-> "object",
                                  py |-> <<"{'result': 'failed', 'code': ", ToString(r.status),
                                           ", 'message': '">> \o r.content \o <<"'}">> ])
           /\ normalized.result.outcome = "raised"
                 => (r.status = 200 /\ ~IsJson(r.content))

C4_Witness ==
    /\ normalized.reply.status = 403
    /\ normalized.reply.content = ForbiddenBody
    /\ normalized.result.outcome = "returned"
    /\ normalized.result.value.py =
          <<"{'result': 'failed', 'code': ", "403", ", 'message': '", "forbidden", "'}">>

\* C5: a delete answered with a 2xx status returns the no-content result
\* (None) without parsing when the body is empty, and the parsed JSON body
\* when the body is not empty (a non-empty body that is not JSON has no
\* parsed form: the parse raises).
C5_DeleteNoContent ==
    \A c \in CallIds :
        (Done(c) /\ calls[c].method = "delete" /\ calls[c].reply.error = ""
           /\ calls[c].reply.status \in SuccessStatuses)
        => LET body == calls[c].reply.content
           IN /\ body = <<>> => calls[c].result = Returned(PyNone)
              /\ (body # <<>> /\ IsJson(body)) => calls[c].result = Returned(JsonLoads(body))
              /\ calls[c].result.outcome = "raised"
                    => (body # <<>> /\ ~IsJson(body)
                        /\ calls[c].result.exc.type = "JSONDecodeError")

C5_Witness ==
    /\ Done(1)
    /\ calls[1].method = "delete"
    /\ calls[1].reply.status = 204
    /\ calls[1].reply.content = <<>>
    /\ calls[1].result = Returned(PyNone)

\* A get_tickets invocation that ended in the result of its try block.
ToolSucceeded(c) ==
    /\ Done(c)
    /\ calls[c].via = "tool"
    /\ calls[c].result.outcome = "returned"
    /\ calls[c].toolResult.content = calls[c].result.value.py

\* C6 as stated: the structured content of every successful get_tickets
\* invocation is a top-level object: {"tickets": L} for a list body L, the
\* body itself for an object body, and the text is the rendering of the body.
C6_StructuredIsObject ==
    \A c \in CallIds :
        ToolSucceeded(c)
        => LET body == calls[c].result.value
               structured == calls[c].toolResult.structuredContent
           IN /\ structured.kind = "object"
              /\ body.kind = "list"
                    => structured = [kind |-> "object",
                                     py |-> <<"{'tickets': ">> \o body.py \o <<"}">>]
              /\ body.kind = "object" => structured = body
              /\ calls[c].toolResult.content = body.py

\* C6 amended: the structured content of a successful invocation is a
\* top-level object or absent, never an array or a scalar: {"tickets": L}
\* for a list body, the body itself for an object body, absent for a JSON
\* null body; a scalar body ends in the "Error:" text result instead.
C6_StructuredIsObjectOrAbsent ==
    \A c \in CallIds :
        /\ ToolSucceeded(c)
           => LET body == calls[c].result.value
                  structured == calls[c].toolResult.structuredContent
              IN /\ structured.kind \in {"object", "none"}
                 /\ body.kind = "list"
                       => structured = [kind |-> "object",
                                        py |-> <<"{'tickets': ">> \o body.py \o <<"}">>]
                 /\ body.kind = "object" => structured = body
                 /\ structured.kind = "none" <=> body.kind = "none"
                 /\ calls[c].toolResult.content = body.py
        /\ (Done(c) /\ calls[c].via = "tool" /\ calls[c].result.outcome = "returned"
              /\ calls[c].result.value.kind \in {"list", "object", "none"})
           => ToolSucceeded(c)
        /\ (Done(c) /\ calls[c].via = "tool" /\ calls[c].result.outcome = "returned"
              /\ calls[c].result.value.kind \notin {"list", "object", "none"})
           => /\ Head(calls[c].toolResult.content) = "Error: "
              /\ calls[c].toolResult.structuredContent = PyNone

C6_Witness ==
    /\ ToolSucceeded(1)
    /\ calls[1].reply.content = ListBody
    /\ calls[1].toolResult.structuredContent.py =
          <<"{'tickets': ", "[{'id': 't1', 'owner': 'alice'}]", "}">>
    /\ calls[1].toolResult.content = <<"[{'id': 't1', 'owner': 'alice'}]">>

\* C7: whether the base URL is given with or without a trailing slash and
\* the endpoint with or without a leading slash, every adapter method
\* requests the stripped base, one "/", the stripped endpoint: base
\* "http://host/" or "http://host" with "/tickets" or "tickets" all give
\* "http://host/tickets".
C7_UrlBuilding ==
    \A c \in CallIds :
        Started(c)
        => LET url == calls[c].requests[1].url
               host == IF client = http_client THEN "http://localhost:9000" ELSE "http://host"
           IN /\ calls[c].endpoint \in Endpoints
              /\ \E q \in Queries : url = <<host, "/", "tickets">> \o q

C7_Witness ==
    /\ client.timeout = 10
    /\ calls[1].pc = "awaiting"
    /\ calls[1].method = "patch"
    /\ calls[1].endpoint = <<"/", "tickets">>
    /\ calls[1].requests[1].url = <<"http://host", "/", "tickets">>

\* C8: under any interleaving of concurrent calls, every call has a session
\* of its own, every request of a call goes through that session, and the
\* session is closed when the call has returned or raised: the open sessions
\* are exactly those of the calls in flight.
C8_SessionPerCall ==
    /\ sessions = {calls[c].session : c \in {d \in CallIds : InFlight(d)}}
    /\ \A c, d \in CallIds :
          (c # d /\ Started(c) /\ Started(d)) => calls[c].session # calls[d].session
    /\ \A c \in CallIds :
          Started(c) => \A i \in 1..Len(calls[c].requests) :
                           calls[c].requests[i].session = calls[c].session
    /\ \A c \in CallIds : Done(c) => calls[c].session \notin sessions
    /\ (\A c \in CallIds : ~InFlight(c)) => sessions = {}

C8_Witness ==
    /\ InFlight(1)
    /\ Done(2)
    /\ calls[2].result.outcome = "raised"
    /\ calls[2].result.exc.type = "HTTPStatusError"
    /\ sessions = {calls[1].session}

C10_ConfiguredTimeoutOnly ==
    \A c \in CallIds :
        Started(c) => \A i \in 1..Len(calls[c].requests) :
                         calls[c].requests[i].timeout = client.timeout

\* C10 amended: every outbound request of get, post, put, patch and delete
\* is sent with the timeout configured at construction; request passes its
\* options on, so a timeout option given to it replaces the configured
\* timeout for that call.
C10_TimeoutUnlessRequestOption ==
    \A c \in CallIds :
        Started(c) => \A i \in 1..Len(calls[c].requests) :
                         calls[c].requests[i].timeout =
                            IF calls[c].method = "request" /\ calls[c].kwTimeout # UseClientDefault
                            THEN calls[c].kwTimeout
                            ELSE client.timeout

C10_Witness ==
    /\ client.timeout = 10
    /\ calls[1].pc = "awaiting"
    /\ calls[1].method = "request"
    /\ calls[1].kwTimeout = 5
    /\ calls[1].requests[1].timeout = 5

====
